---- MODULE Spec2Model ----
(***************************************************************************)
(* A model of stl_analyzer.py (class STLAnalyzerGUI): the folder scan      *)
(* find_stl_files, the per-file measurement get_stl_dimensions, and the    *)
(* Analyze / Stop / poll state machine made of the Tk handlers on the main *)
(* thread and the analysis worker thread that feeds output_queue.          *)
(*                                                                         *)
(* Conventions.  A file or directory name is a sequence of one-character   *)
(* strings, so that lower() and endswith() are computed, not assumed.  A   *)
(* directory path is a sequence of names, a file path a record [parent,    *)
(* name].  Lengths are fixed-point integers in units of 0.0001 mm, so that *)
(* round(x, 3) is a rounding to a multiple of 10 units.                    *)
(***************************************************************************)
EXTENDS Integers, Sequences, FiniteSets, TLC

VARIABLES
    fs,                 \* the directory entries on disk: [parent, name, is_file]
    ci,                 \* TRUE on a platform whose glob matching ignores case
    STL_AVAILABLE,      \* module flag set by the numpy-stl import
    call,               \* the last direct call of a pure method and its result
    selected_folder,    \* self.selected_folder ("" as <<>> when none)
    recursive_search,   \* self.recursive_search
    processing,         \* self.processing
    stop_requested,     \* self.stop_requested
    results,            \* self.results
    output_queue,       \* self.output_queue, oldest message first
    threads,            \* every analysis thread started so far, in order
    poll,               \* check_queue: "idle", "scheduled" (after()) or "running"
    analyze_button,     \* state of each widget: "normal" or "disabled"
    stop_button,
    export_button,
    open_folder_button,
    browse_button,
    recursive_checkbox,
    progress_var,       \* self.progress_var
    status_var,         \* self.status_var
    tree,               \* rows of self.results_tree
    dialogs,            \* message boxes shown by the last command or terminal handler
    written,            \* files written by the last command or terminal handler
    stop_appends        \* history: records appended while stop_requested was set

env_vars == <<fs, ci, STL_AVAILABLE>>
gui_vars == <<selected_folder, recursive_search, processing, stop_requested,
              results, output_queue, threads, poll, analyze_button, stop_button,
              export_button, open_folder_button, browse_button,
              recursive_checkbox, progress_var, status_var, tree, dialogs,
              written, stop_appends>>
vars == <<fs, ci, STL_AVAILABLE, call, selected_folder, recursive_search,
          processing, stop_requested, results, output_queue, threads, poll,
          analyze_button, stop_button, export_button, open_folder_button,
          browse_button, recursive_checkbox, progress_var, status_var, tree,
          dialogs, written, stop_appends>>

(***************************************************************************)
(* Strings                                                                 *)
(***************************************************************************)
UpperAlpha ==
    <<"A","B","C","D","E","F","G","H","I","J","K","L","M",
      "N","O","P","Q","R","S","T","U","V","W","X","Y","Z">>

LowerAlpha ==
    <<"a","b","c","d","e","f","g","h","i","j","k","l","m",
      "n","o","p","q","r","s","t","u","v","w","x","y","z">>

\* str.lower() on one character
LowerChar(c) ==
    IF \E k \in 1..Len(UpperAlpha) : UpperAlpha[k] = c
    THEN LowerAlpha[CHOOSE k \in 1..Len(UpperAlpha) : UpperAlpha[k] = c]
    ELSE c

\* str.lower()
Lower(s) == [k \in 1..Len(s) |-> LowerChar(s[k])]

\* str.endswith(suffix)
EndsWith(s, suffix) ==
    /\ Len(s) >= Len(suffix)
    /\ SubSeq(s, Len(s) - Len(suffix) + 1, Len(s)) = suffix

\* sequence prefix test (used for "status starts with" and for path ancestry)
StartsWith(s, prefix) ==
    /\ Len(s) >= Len(prefix)
    /\ SubSeq(s, 1, Len(prefix)) = prefix

DotStl == <<".", "s", "t", "l">>
PatLower == <<"*", ".", "s", "t", "l">>
PatUpper == <<"*", ".", "S", "T", "L">>

(***************************************************************************)
(* The disk                                                                *)
(***************************************************************************)
RootDir == << <<"m">> >>
SubName == <<"s", "u", "b">>
SubDir == RootDir \o <<SubName>>
DirStlName == <<"d", ".", "s", "t", "l">>
DirStl == RootDir \o <<DirStlName>>

\* Every entry a modelled disk may hold, in the order a directory listing
\* (os.scandir) yields them.  The order of a real listing is arbitrary; one
\* fixed order is modelled.
Listing ==
    << [parent |-> RootDir, name |-> <<"a", ".", "s", "t", "l">>, is_file |-> TRUE],
       [parent |-> RootDir, name |-> <<"a", ".", "S", "T", "L">>, is_file |-> TRUE],
       [parent |-> RootDir, name |-> <<"a", ".", "S", "t", "l">>, is_file |-> TRUE],
       [parent |-> RootDir, name |-> <<"a", ".", "t", "x", "t">>, is_file |-> TRUE],
       [parent |-> RootDir, name |-> DirStlName, is_file |-> FALSE],
       [parent |-> RootDir, name |-> SubName, is_file |-> FALSE],
       [parent |-> SubDir, name |-> <<"a", ".", "s", "t", "l">>, is_file |-> TRUE],
       [parent |-> DirStl, name |-> <<"b", ".", "S", "T", "L">>, is_file |-> TRUE] >>

Universe == {Listing[k] : k \in 1..Len(Listing)}

Folders == {RootDir, SubDir}

\* the directories that exist on disk d, the scanned root included
DirsOf(d) == {RootDir} \cup {e.parent \o <<e.name>> : e \in {x \in d : ~x.is_file}}

\* A disk the operating system can hold: every entry lies in an existing
\* directory, and a case-insensitive platform holds no two names of one
\* directory that differ only in case.
WellFormed(d, caseless) ==
    /\ \A e \in d : e.parent \in DirsOf(d)
    /\ caseless =>
         \A e1, e2 \in d :
           (e1.parent = e2.parent /\ Lower(e1.name) = Lower(e2.name)) => e1 = e2

PathOf(e) == [parent |-> e.parent, name |-> e.name]

\* Path.is_file()
IsFile(d, p) == \E e \in d : PathOf(e) = p /\ e.is_file

(***************************************************************************)
(* find_stl_files                                                          *)
(***************************************************************************)
\* fnmatch of a name against a pattern "*<suffix>"; both sides are
\* case-normalised first on a case-insensitive platform (os.path.normcase)
FnMatch(name, pat, caseless) ==
    IF caseless
    THEN EndsWith(Lower(name), Lower(Tail(pat)))
    ELSE EndsWith(name, Tail(pat))

\* the entries of disk d that lie directly in one of dirs and match pat, in
\* listing order, from position k of the listing on
RECURSIVE SelectListing(_, _, _, _, _)
SelectListing(k, d, dirs, pat, caseless) ==
    IF k > Len(Listing) THEN <<>>
    ELSE LET e == Listing[k]
             rest == SelectListing(k + 1, d, dirs, pat, caseless)
         IN IF e \in d /\ e.parent \in dirs /\ FnMatch(e.name, pat, caseless)
            THEN <<PathOf(e)>> \o rest
            ELSE rest

\* Path.glob(pattern): the entries of the folder itself that match
Glob(d, folder, pat, caseless) ==
    SelectListing(1, d, {folder}, pat, caseless)

\* Path.rglob(pattern): the entries of the folder and of every directory
\* below it that match
RGlob(d, folder, pat, caseless) ==
    SelectListing(1, d, {x \in DirsOf(d) : StartsWith(x, folder)}, pat, caseless)

\* file_key = str(stl_file)
FileKeyByName(p) == p.name

FileKey(p) == <<p.parent, p.name>>

\* the filter-and-deduplicate loop: a dict keyed by FileKey keeps one value
\* per key, at the position of the key's first insertion
RECURSIVE UniqueFiles(_, _, _)
UniqueFiles(d, files, keys) ==
    IF files = <<>> THEN <<>>
    ELSE LET f == Head(files)
         IN IF /\ EndsWith(Lower(f.name), DotStl)
               /\ IsFile(d, f)
               /\ FileKey(f) \notin keys
            THEN <<f>> \o UniqueFiles(d, Tail(files), keys \cup {FileKey(f)})
            ELSE UniqueFiles(d, Tail(files), keys)

find_stl_files(d, caseless, folder_path, recursive) ==
    LET stl_files ==
          IF recursive
          THEN RGlob(d, folder_path, PatLower, caseless)
                 \o RGlob(d, folder_path, PatUpper, caseless)
          ELSE Glob(d, folder_path, PatLower, caseless)
                 \o Glob(d, folder_path, PatUpper, caseless)
    IN UniqueFiles(d, stl_files, {})

(***************************************************************************)
(* get_stl_dimensions                                                      *)
(***************************************************************************)
\* the float value NaN; every modelled finite length is far above it
NaN == -(2 ^ 20)

IsNaN(x) == x = NaN

\* stl_mesh.points.reshape(-1, 3): the vertices of all triangles, in order
RECURSIVE Points(_)
Points(vectors) ==
    IF vectors = <<>> THEN <<>> ELSE Head(vectors) \o Points(Tail(vectors))

\* column `axis` of the points array
Column(points, axis) == [k \in 1..Len(points) |-> points[k][axis]]

\* np.min over one column: NaN if any element is NaN
NpMinFirst(col) == col[1]

NpMin(col) ==
    IF \E k \in 1..Len(col) : IsNaN(col[k]) THEN NaN
    ELSE CHOOSE m \in {col[k] : k \in 1..Len(col)} :
           \A k \in 1..Len(col) : m <= col[k]

\* np.max over one column: NaN if any element is NaN
NpMax(col) ==
    IF \E k \in 1..Len(col) : IsNaN(col[k]) THEN NaN
    ELSE CHOOSE m \in {col[k] : k \in 1..Len(col)} :
           \A k \in 1..Len(col) : m >= col[k]

\* float subtraction
FSub(a, b) == IF IsNaN(a) \/ IsNaN(b) THEN NaN ELSE a - b

\* round(x, 3): to the nearest multiple of 0.001 (10 units), a tie to the
\* even multiple, NaN to NaN
RECURSIVE Round3(_)
Round3(x) ==
    IF IsNaN(x) THEN NaN
    ELSE IF x < 0 THEN -Round3(-x)
    ELSE LET q == x \div 10
             r == x % 10
         IN IF r < 5 THEN q * 10
            ELSE IF r > 5 THEN (q + 1) * 10
            ELSE IF q % 2 = 0 THEN q * 10 ELSE (q + 1) * 10

\* os.path.relpath(path, start) on directory paths
RelPath(path, start) ==
    LET common == CHOOSE n \in 0..Len(path) :
                    /\ n <= Len(start)
                    /\ SubSeq(path, 1, n) = SubSeq(start, 1, n)
                    /\ \A m \in (n + 1)..Len(path) :
                         m > Len(start) \/ SubSeq(path, 1, m) /= SubSeq(start, 1, m)
        ups == [k \in 1..(Len(start) - common) |-> <<".", ".">>]
        rest == SubSeq(path, common + 1, Len(path))
    IN IF ups \o rest = <<>> THEN << <<".">> >> ELSE ups \o rest

get_relative_folder(file_path, base_folder) ==
    IF base_folder /= <<>>
    THEN IF file_path.parent = base_folder
         THEN << <<".">> >>
         ELSE RelPath(file_path.parent, base_folder)
    ELSE file_path.parent

StatusOK == <<"OK">>
ErrNoLibrary == <<"Error:", "numpy-stl not installed">>
ErrLoad == <<"Error:", "could not read file">>
ErrEmpty == <<"Error:", "zero-size array to reduction operation minimum">>

\* the record returned on the error paths
ErrorRecord(file_path, base_folder, status) ==
    [folder |-> get_relative_folder(file_path, base_folder),
     file |-> file_path.name,
     width_x |-> 0, depth_y |-> 0, height_z |-> 0, volume |-> 0,
     triangle_count |-> 0,
     unit |-> "mm", status |-> status]

\* content is what the mesh library makes of the file: loads (from_file
\* returns), vectors (the triangles), mass_raises and mass_volume (the
\* outcome of get_mass_properties)
get_stl_dimensions(available, file_path, base_folder, content) ==
    IF ~available
    THEN ErrorRecord(file_path, base_folder, ErrNoLibrary)
    ELSE IF ~content.loads
    THEN ErrorRecord(file_path, base_folder, ErrLoad)
    ELSE IF content.vectors = <<>>
    THEN ErrorRecord(file_path, base_folder, ErrEmpty)
    ELSE LET points == Points(content.vectors)
             min_coords == [a \in 1..3 |-> NpMin(Column(points, a))]
             max_coords == [a \in 1..3 |-> NpMax(Column(points, a))]
             dimensions == [a \in 1..3 |-> FSub(max_coords[a], min_coords[a])]
             volume == IF content.mass_raises THEN 0 ELSE content.mass_volume
         IN [folder |-> get_relative_folder(file_path, base_folder),
             file |-> file_path.name,
             width_x |-> Round3(dimensions[1]),
             depth_y |-> Round3(dimensions[2]),
             height_z |-> Round3(dimensions[3]),
             volume |-> Round3(volume),
             triangle_count |-> Len(content.vectors),
             unit |-> "mm", status |-> StatusOK]

(***************************************************************************)
(* Inputs of the direct calls                                              *)
(***************************************************************************)
\* the largest number of triangles of a modelled mesh
MaxTriangles == 2

\* vertices <<x, y, z>> in units of 0.0001 mm; their differences cover
\* rounding down, rounding up and no rounding, and one coordinate is NaN
VertexPool == {<<0, 0, 0>>, <<-3, 26, 10>>, <<4, 16, NaN>>}

Triangles == [1..3 -> VertexPool]

Meshes == UNION {[1..n -> Triangles] : n \in 0..MaxTriangles}

Unreadable ==
    [loads |-> FALSE, vectors |-> <<>>, mass_raises |-> FALSE, mass_volume |-> 0]

MeshContents ==
    {[loads |-> TRUE, vectors |-> m, mass_raises |-> r, mass_volume |-> 12346] :
       m \in Meshes, r \in BOOLEAN}

Contents == {Unreadable} \cup MeshContents

NoCall == [op |-> "none"]

(***************************************************************************)
(* The state after __init__                                                *)
(***************************************************************************)
GuiInit ==
    /\ selected_folder = <<>>
    /\ recursive_search = FALSE
    /\ processing = FALSE
    /\ stop_requested = FALSE
    /\ results = <<>>
    /\ output_queue = <<>>
    /\ threads = <<>>
    /\ poll = "idle"
    /\ analyze_button = "disabled"
    /\ stop_button = "disabled"
    /\ export_button = "disabled"
    /\ open_folder_button = "disabled"
    /\ browse_button = "normal"
    /\ recursive_checkbox = "normal"
    /\ progress_var = 0
    /\ status_var = [text |-> "Ready", a |-> 0, b |-> 0]
    /\ tree = <<>>
    /\ dialogs = <<>>
    /\ written = <<>>
    /\ stop_appends = 0

(***************************************************************************)
(* SpecScan: find_stl_files called directly on every modelled disk         *)
(***************************************************************************)
InitScan ==
    /\ ci \in BOOLEAN
    /\ fs \in {d \in SUBSET Universe : WellFormed(d, ci)}
    /\ STL_AVAILABLE = TRUE
    /\ call = NoCall
    /\ GuiInit

CallFindStlFiles ==
    /\ call = NoCall
    /\ \E folder \in Folders, recursive \in BOOLEAN :
         /\ folder \in DirsOf(fs)
         /\ call' = [op |-> "find_stl_files", folder |-> folder,
                     recursive |-> recursive,
                     ret |-> find_stl_files(fs, ci, folder, recursive)]
    /\ UNCHANGED <<env_vars, gui_vars>>

NextScan == CallFindStlFiles

SpecScan == InitScan /\ [][NextScan]_vars

(***************************************************************************)
(* SpecDims: get_stl_dimensions called directly on every modelled content  *)
(***************************************************************************)
InitDims ==
    /\ ci = FALSE
    /\ fs = Universe
    /\ STL_AVAILABLE \in BOOLEAN
    /\ call = NoCall
    /\ GuiInit

CallGetStlDimensions ==
    /\ call = NoCall
    /\ \E content \in Contents, e \in {x \in fs : x.is_file}, base \in Folders :
         /\ StartsWith(e.parent, base)
         /\ call' = [op |-> "get_stl_dimensions", content |-> content,
                     path |-> PathOf(e), base_folder |-> base,
                     ret |-> get_stl_dimensions(STL_AVAILABLE, PathOf(e), base,
                                                content)]
    /\ UNCHANGED <<env_vars, gui_vars>>

NextDims == CallGetStlDimensions

SpecDims == InitDims /\ [][NextDims]_vars

(***************************************************************************)
(* Claims about get_stl_dimensions (SpecDims)                              *)
(***************************************************************************)
Measured == call.op = "get_stl_dimensions"

MeasuredOK == Measured /\ call.ret.status = StatusOK

\* the coordinates on one axis of all vertices of all triangles
AxisCoords(content, axis) ==
    {content.vectors[t][v][axis] :
       t \in 1..Len(content.vectors), v \in 1..3}

SetMax(S) == CHOOSE m \in S : \A x \in S : m >= x

SetMin(S) == CHOOSE m \in S : \A x \in S : m <= x

\* the extent of the mesh on one axis, for finite coordinates
Extent(content, axis) ==
    SetMax(AxisCoords(content, axis)) - SetMin(AxisCoords(content, axis))

AxisFinite(content, axis) == \A x \in AxisCoords(content, axis) : ~IsNaN(x)

DimOf(rec, axis) ==
    IF axis = 1 THEN rec.width_x ELSE IF axis = 2 THEN rec.depth_y ELSE rec.height_z

\* C1 as stated: for every mesh loaded with status OK, width_x, depth_y and
\* height_z equal the maximum minus the minimum of the x, y and z coordinates
\* over all vertices of all triangles, and each is >= 0.
C1_AsStated ==
    MeasuredOK =>
      \A axis \in 1..3 :
        /\ AxisFinite(call.content, axis)
        /\ DimOf(call.ret, axis) = Extent(call.content, axis)
        /\ DimOf(call.ret, axis) >= 0

\* C1 amended: for every mesh loaded with status OK, on each axis whose
\* coordinates are all finite the dimension equals the maximum minus the
\* minimum of that coordinate over all vertices of all triangles, rounded to
\* three decimals, and is >= 0; on an axis with a NaN coordinate it is NaN.
C1_RoundedExtent ==
    MeasuredOK =>
      \A axis \in 1..3 :
        IF AxisFinite(call.content, axis)
        THEN /\ DimOf(call.ret, axis) = Round3(Extent(call.content, axis))
             /\ DimOf(call.ret, axis) >= 0
        ELSE IsNaN(DimOf(call.ret, axis))

\* C1 witness: a mesh of two triangles, finite on x, whose x extremes lie in
\* different triangles and whose x extent is changed by the rounding
C1_Witness ==
    /\ MeasuredOK
    /\ Len(call.content.vectors) = 2
    /\ AxisFinite(call.content, 1)
    /\ AxisCoords([vectors |-> <<call.content.vectors[1]>>], 1) = {0}
    /\ Extent(call.content, 1) = 7
    /\ call.ret.width_x = 10
    /\ call.ret.depth_y = 30

(***************************************************************************)
(* Claims about find_stl_files (SpecScan)                                  *)
(***************************************************************************)
Scanned == call.op = "find_stl_files"

Range(s) == {s[k] : k \in 1..Len(s)}

\* the directory entries the scan covers
InScope(e, folder, recursive) ==
    IF recursive THEN StartsWith(e.parent, folder) ELSE e.parent = folder

\* C2 as stated: find_stl_files returns every regular file of the scanned
\* folder (and of its subfolders when recursive) whose name ends with '.stl'
\* compared without regard to case, and no other file.
C2_CaseInsensitive ==
    Scanned =>
      Range(call.ret) =
        {PathOf(e) : e \in {x \in fs : /\ x.is_file
                                       /\ InScope(x, call.folder, call.recursive)
                                       /\ EndsWith(Lower(x.name), DotStl)}}

\* the paths the two glob patterns yield, with their repetitions
Globbed ==
    IF call.recursive
    THEN RGlob(fs, call.folder, PatLower, ci) \o RGlob(fs, call.folder, PatUpper, ci)
    ELSE Glob(fs, call.folder, PatLower, ci) \o Glob(fs, call.folder, PatUpper, ci)

\* the matched files: what the globs yield that is a regular file
Matched == {p \in Range(Globbed) : IsFile(fs, p)}

Occurrences(s, x) == Cardinality({k \in 1..Len(s) : s[k] = x})

\* C3: the returned list has exactly one entry per distinct full path among
\* the matched files: a file matched by both patterns appears once, and files
\* of the same name in different folders all appear.
C3_OnePerPath ==
    Scanned =>
      /\ Range(call.ret) = Matched
      /\ \A p \in Matched : Occurrences(call.ret, p) = 1

\* C3 witness: a recursive scan in which one file is yielded by both
\* patterns and two returned files share a name but not a folder
C3_Witness ==
    /\ Scanned
    /\ \E p \in Matched : Occurrences(Globbed, p) = 2
    /\ \E k1, k2 \in 1..Len(call.ret) :
         /\ call.ret[k1].name = call.ret[k2].name
         /\ call.ret[k1].parent /= call.ret[k2].parent

(***************************************************************************)
(* The application: handlers of the main thread                            *)
(***************************************************************************)
\* the largest number of analysis runs (threads started) of a behaviour
MaxRuns == 2

\* the disk at the start of the application runs: a file in the root folder
\* and one of the same name in a subfolder
GuiDisk ==
    {Listing[1], Listing[6], Listing[7]}

\* what the mesh library may make of a file during a run
GuiContents ==
    {Unreadable,
     [loads |-> TRUE,
      vectors |-> << <<(<<0, 0, 0>>), (<<-3, 26, 10>>), (<<4, 16, 10>>)>> >>,
      mass_raises |-> FALSE, mass_volume |-> 12346]}

Msg(type, data) == [type |-> type, data |-> data]

\* a text of the status bar, with the numbers it is formatted from
Status(text, a, b) == [text |-> text, a |-> a, b |-> b]

\* the local variables of analyze_files_thread; pc is the position:
\* "start", "loop" (head of the for loop), "analyze", "report", "done"
NewThread ==
    [pc |-> "start", exit |-> "none", folder |-> <<>>, recursive |-> FALSE,
     scanned |-> FALSE, stl_files |-> <<>>, i |-> 0, processed_count |-> 0,
     result |-> <<>>]

\* a thread of an earlier run that has returned: its locals are gone
Ended(th) == IF th.pc = "done" THEN [NewThread EXCEPT !.pc = "done"] ELSE th

Active(th) == th.pc /= "done"

MainThreadFree == poll /= "running"

Successful(res) == Cardinality({k \in 1..Len(res) : res[k].status = StatusOK})

FieldNames ==
    <<"folder", "file", "width_x", "depth_y", "height_z", "volume",
      "triangle_count", "unit", "status">>

\* the file csv.DictWriter produces: writeheader, then writerows(results)
CsvFileNoFirst(folder, res, via) ==
    [kind |-> "csv", folder |-> folder, via |-> via, header |-> FieldNames,
     rows |-> Tail(res)]

CsvFile(folder, res, via) ==
    [kind |-> "csv", folder |-> folder, via |-> via, header |-> FieldNames,
     rows |-> res]

\* scan_folder, given the folder and the recursive flag it reads
ScanFolder(folder, recursive) ==
    IF folder = <<>>
    THEN UNCHANGED <<analyze_button, status_var>>
    ELSE \E raises \in BOOLEAN :
           IF raises
           THEN /\ analyze_button' = "disabled"
                /\ UNCHANGED status_var
           ELSE LET count == Len(find_stl_files(fs, ci, folder, recursive))
                IN IF count > 0
                   THEN /\ analyze_button' = "normal"
                        /\ status_var' = Status("Found files - Ready to analyze", count, 0)
                   ELSE /\ analyze_button' = "disabled"
                        /\ status_var' = Status("No STL files found", 0, 0)

\* browse_folder: the dialog returns a folder, or "" when cancelled
BrowseFolder ==
    /\ MainThreadFree
    /\ browse_button = "normal"
    /\ \E folder \in Folders \cup {<<>>} :
         IF folder /= <<>>
         THEN /\ selected_folder' = folder
              /\ ScanFolder(folder, recursive_search)
         ELSE UNCHANGED <<selected_folder, analyze_button, status_var>>
    /\ dialogs' = <<>>
    /\ written' = <<>>
    /\ UNCHANGED <<env_vars, call, recursive_search, processing, stop_requested,
                   results, output_queue, threads, poll, stop_button,
                   export_button, open_folder_button, browse_button,
                   recursive_checkbox, progress_var, tree, stop_appends>>

\* a click on the checkbox flips recursive_search, then on_recursive_toggle
OnRecursiveToggle ==
    /\ MainThreadFree
    /\ recursive_checkbox = "normal"
    /\ recursive_search' = ~recursive_search
    /\ ScanFolder(selected_folder, ~recursive_search)
    /\ dialogs' = <<>>
    /\ written' = <<>>
    /\ UNCHANGED <<env_vars, call, selected_folder, processing, stop_requested,
                   results, output_queue, threads, poll, stop_button,
                   export_button, open_folder_button, browse_button,
                   recursive_checkbox, progress_var, tree, stop_appends>>

\* start_analysis without its guard on self.processing
StartAnalysisBody ==
    /\ processing' = TRUE
    /\ stop_requested' = FALSE
    /\ analyze_button' = "disabled"
    /\ stop_button' = "normal"
    /\ export_button' = "disabled"
    /\ browse_button' = "disabled"
    /\ recursive_checkbox' = "disabled"
    /\ tree' = <<>>
    /\ results' = <<>>
    /\ threads' = Append([t \in 1..Len(threads) |-> Ended(threads[t])], NewThread)
    /\ poll' = "running"
    /\ stop_appends' = 0
    /\ dialogs' = <<>>
    /\ written' = <<>>
    /\ UNCHANGED <<env_vars, call, selected_folder, recursive_search,
                   output_queue, open_folder_button, progress_var, status_var>>

StartAnalysisUnguarded ==
    /\ MainThreadFree
    /\ analyze_button = "normal" \/ processing
    /\ Len(threads) < MaxRuns
    /\ StartAnalysisBody

\* start_analysis: the command of the Analyze button; it is also taken while
\* processing is set, where it returns at once
StartAnalysis ==
    /\ MainThreadFree
    /\ analyze_button = "normal" \/ processing
    /\ IF processing
       THEN UNCHANGED vars
       ELSE /\ Len(threads) < MaxRuns
            /\ StartAnalysisBody

\* stop_analysis: the command of the Stop button
StopAnalysis ==
    /\ MainThreadFree
    /\ stop_button = "normal"
    /\ IF processing
       THEN /\ stop_requested' = TRUE
            /\ stop_button' = "disabled"
            /\ status_var' = Status("Stop requested - finishing current file...", 0, 0)
            /\ dialogs' = <<>>
            /\ written' = <<>>
            /\ UNCHANGED <<env_vars, call, selected_folder, recursive_search,
                           processing, results, output_queue, threads, poll,
                           analyze_button, export_button, open_folder_button,
                           browse_button, recursive_checkbox, progress_var,
                           tree, stop_appends>>
       ELSE UNCHANGED vars

(***************************************************************************)
(* The worker: analyze_files_thread, one step per access to shared state   *)
(***************************************************************************)
Put(q, msgs) == q \o msgs

worker_frame == <<env_vars, call, selected_folder, recursive_search, processing,
                  stop_requested, poll, analyze_button, stop_button,
                  export_button, open_folder_button, browse_button,
                  recursive_checkbox, progress_var, status_var, tree, dialogs,
                  written>>

\* lines 329-338 and 369-370: read the folder and the flag, find the files,
\* announce them; an exception of the scan is reported as 'error'
W_Find(t) ==
    /\ threads[t].pc = "start"
    /\ \E raises \in BOOLEAN :
         IF raises
         THEN /\ output_queue' = Put(output_queue, <<Msg("error", "OSError")>>)
              /\ threads' = [threads EXCEPT ![t].pc = "done", ![t].exit = "error"]
         ELSE LET files == find_stl_files(fs, ci, selected_folder, recursive_search)
              IN /\ output_queue' =
                      Put(output_queue,
                          <<Msg("status", Status("Analyzing files", Len(files),
                                                 IF recursive_search THEN 1 ELSE 0))>>)
                 /\ threads' = [threads EXCEPT ![t].pc = "loop",
                                               ![t].folder = selected_folder,
                                               ![t].recursive = recursive_search,
                                               ![t].scanned = TRUE,
                                               ![t].stl_files = files]
    /\ UNCHANGED <<worker_frame, results, stop_appends>>

\* lines 342-354 with the stop check left out
W_CheckNoStop(t) ==
    LET th == threads[t]
        total_files == Len(th.stl_files)
    IN /\ th.pc = "loop"
       /\ th.i < total_files
       /\ output_queue' =
            Put(output_queue,
                <<Msg("progress", (th.i * 100) \div total_files),
                  Msg("status", Status("Processing", th.i + 1, total_files))>>)
       /\ threads' = [threads EXCEPT ![t].pc = "analyze"]
       /\ UNCHANGED <<worker_frame, results, stop_appends>>

\* lines 342-354: the head of the loop for the next file: the stop check,
\* then the progress and status messages
W_Check(t) ==
    LET th == threads[t]
        total_files == Len(th.stl_files)
    IN /\ th.pc = "loop"
       /\ th.i < total_files
       /\ IF stop_requested
          THEN /\ output_queue' =
                    Put(output_queue,
                        <<Msg("status", Status("Analysis stopped by user",
                                               th.processed_count, total_files)),
                          Msg("stopped", th.processed_count)>>)
               /\ threads' = [threads EXCEPT ![t].pc = "done", ![t].exit = "stopped"]
          ELSE /\ output_queue' =
                    Put(output_queue,
                        <<Msg("progress", (th.i * 100) \div total_files),
                          Msg("status", Status("Processing", th.i + 1, total_files))>>)
               /\ threads' = [threads EXCEPT ![t].pc = "analyze"]
       /\ UNCHANGED <<worker_frame, results, stop_appends>>

\* lines 357-358 if an exception of the measurement reached the thread
W_AnalyzeRaising(t) ==
    LET th == threads[t]
    IN /\ th.pc = "analyze"
       /\ \E content \in GuiContents :
            LET result == get_stl_dimensions(STL_AVAILABLE, th.stl_files[th.i + 1],
                                             th.folder, content)
            IN IF result.status = StatusOK
               THEN /\ results' = Append(results, result)
                    /\ threads' = [threads EXCEPT ![t].pc = "report",
                                                  ![t].result = result]
                    /\ stop_appends' = stop_appends + (IF stop_requested THEN 1 ELSE 0)
                    /\ UNCHANGED output_queue
               ELSE /\ output_queue' = Put(output_queue, <<Msg("error", result.status)>>)
                    /\ threads' = [threads EXCEPT ![t].pc = "done", ![t].exit = "error"]
                    /\ UNCHANGED <<results, stop_appends>>
       /\ UNCHANGED worker_frame

\* lines 357-358: measure the file and append the record to self.results
W_Analyze(t) ==
    LET th == threads[t]
    IN /\ th.pc = "analyze"
       /\ \E content \in GuiContents :
            LET result == get_stl_dimensions(STL_AVAILABLE, th.stl_files[th.i + 1],
                                             th.folder, content)
            IN /\ results' = Append(results, result)
               /\ threads' = [threads EXCEPT ![t].pc = "report", ![t].result = result]
       /\ stop_appends' = stop_appends + (IF stop_requested THEN 1 ELSE 0)
       /\ UNCHANGED <<worker_frame, output_queue>>

\* lines 359-360: queue the record, count the file, go to the next one
W_Report(t) ==
    LET th == threads[t]
    IN /\ th.pc = "report"
       /\ output_queue' = Put(output_queue, <<Msg("result", th.result)>>)
       /\ threads' = [threads EXCEPT ![t].pc = "loop",
                                     ![t].result = <<>>,
                                     ![t].i = th.i + 1,
                                     ![t].processed_count = th.processed_count + 1]
       /\ UNCHANGED <<worker_frame, results, stop_appends>>

\* lines 362-367: after the last file, 'complete' unless a stop is requested
W_Final(t) ==
    LET th == threads[t]
        total_files == Len(th.stl_files)
    IN /\ th.pc = "loop"
       /\ th.i = total_files
       /\ IF ~stop_requested
          THEN /\ output_queue' =
                    Put(output_queue,
                        <<Msg("progress", 100),
                          Msg("status", Status("Analysis complete!", total_files,
                                               IF th.recursive THEN 1 ELSE 0)),
                          Msg("complete", 0)>>)
               /\ threads' = [threads EXCEPT ![t].pc = "done", ![t].exit = "complete"]
          ELSE /\ UNCHANGED output_queue
               /\ threads' = [threads EXCEPT ![t].pc = "done", ![t].exit = "silent"]
       /\ UNCHANGED <<worker_frame, results, stop_appends>>

WorkerStep ==
    \E t \in 1..Len(threads) :
      \/ W_Find(t)
      \/ W_Check(t)
      \/ W_Analyze(t)
      \/ W_Report(t)
      \/ W_Final(t)

(***************************************************************************)
(* check_queue, one get_nowait per step, and the handlers it calls         *)
(***************************************************************************)
\* check_queue is running, or due to run from root.after
Polling == poll \in {"scheduled", "running"}

HeadIs(type) == output_queue /= <<>> /\ Head(output_queue).type = type

cq_frame == <<env_vars, call, selected_folder, recursive_search, results,
              threads, stop_appends>>

\* auto_export_results, called last but for the boxes `info` of its caller;
\* `summary` is the status text the caller has set before.  The write fails
\* or succeeds.
AutoExportResults(summary, info) ==
    IF results = <<>>
    THEN /\ status_var' = summary
         /\ dialogs' = info
         /\ written' = <<>>
    ELSE \E ok \in BOOLEAN :
           IF ok
           THEN /\ written' = <<CsvFile(selected_folder, results, "auto")>>
                /\ status_var' = Status("Results exported", 0, 0)
                /\ dialogs' = info
           ELSE /\ status_var' = summary
                /\ dialogs' = <<"Export Error">> \o info
                /\ written' = <<>>

CQ_Progress ==
    /\ Polling
    /\ HeadIs("progress")
    /\ progress_var' = Head(output_queue).data
    /\ output_queue' = Tail(output_queue)
    /\ poll' = "running"
    /\ UNCHANGED <<cq_frame, processing, stop_requested, analyze_button,
                   stop_button, export_button, open_folder_button, browse_button,
                   recursive_checkbox, status_var, tree, dialogs, written>>

CQ_Status ==
    /\ Polling
    /\ HeadIs("status")
    /\ status_var' = Head(output_queue).data
    /\ output_queue' = Tail(output_queue)
    /\ poll' = "running"
    /\ UNCHANGED <<cq_frame, processing, stop_requested, analyze_button,
                   stop_button, export_button, open_folder_button, browse_button,
                   recursive_checkbox, progress_var, tree, dialogs, written>>

\* add_result_to_tree
CQ_Result ==
    /\ Polling
    /\ HeadIs("result")
    /\ tree' = Append(tree, Head(output_queue).data)
    /\ output_queue' = Tail(output_queue)
    /\ poll' = "running"
    /\ UNCHANGED <<cq_frame, processing, stop_requested, analyze_button,
                   stop_button, export_button, open_folder_button, browse_button,
                   recursive_checkbox, progress_var, status_var, dialogs, written>>

\* analysis_complete
CQ_Complete ==
    /\ Polling
    /\ HeadIs("complete")
    /\ output_queue' = Tail(output_queue)
    /\ poll' = "running"
    /\ processing' = FALSE
    /\ stop_requested' = FALSE
    /\ analyze_button' = "normal"
    /\ stop_button' = "disabled"
    /\ export_button' = "normal"
    /\ open_folder_button' = "normal"
    /\ browse_button' = "normal"
    /\ recursive_checkbox' = "normal"
    /\ AutoExportResults(Status("Analysis Complete", Successful(results), Len(results)),
                         <<>>)
    /\ UNCHANGED <<cq_frame, progress_var, tree>>

\* the two texts of the "Analysis Stopped" box
NoticePartial == "Analysis was stopped by user. Partial results have been exported."

NoticeNone == "Analysis was stopped before any files could be processed."

\* analysis_stopped
CQ_Stopped ==
    /\ Polling
    /\ HeadIs("stopped")
    /\ output_queue' = Tail(output_queue)
    /\ poll' = "running"
    /\ processing' = FALSE
    /\ stop_requested' = FALSE
    /\ analyze_button' = "normal"
    /\ stop_button' = "disabled"
    /\ browse_button' = "normal"
    /\ recursive_checkbox' = "normal"
    /\ LET processed_count == Head(output_queue).data
           successful == Successful(results)
           summary == Status("Analysis Stopped", processed_count, successful)
           info == IF successful > 0 THEN <<NoticePartial>> ELSE <<NoticeNone>>
       IN IF results /= <<>>
          THEN /\ export_button' = "normal"
               /\ open_folder_button' = "normal"
               /\ AutoExportResults(summary, info)
          ELSE /\ status_var' = summary
               /\ dialogs' = info
               /\ written' = <<>>
               /\ UNCHANGED <<export_button, open_folder_button>>
    /\ UNCHANGED <<cq_frame, progress_var, tree>>

\* analysis_error
CQ_Error ==
    /\ Polling
    /\ HeadIs("error")
    /\ output_queue' = Tail(output_queue)
    /\ poll' = "running"
    /\ processing' = FALSE
    /\ stop_requested' = FALSE
    /\ analyze_button' = "normal"
    /\ stop_button' = "disabled"
    /\ browse_button' = "normal"
    /\ recursive_checkbox' = "normal"
    /\ status_var' = Status("Analysis failed", 0, 0)
    /\ dialogs' = <<"Analysis Error">>
    /\ written' = <<>>
    /\ UNCHANGED <<cq_frame, export_button, open_folder_button, progress_var,
                   tree>>

\* queue.Empty: leave the loop, and poll again in 100 ms while processing
CQ_Empty ==
    /\ Polling
    /\ output_queue = <<>>
    /\ poll' = IF processing THEN "scheduled" ELSE "idle"
    /\ UNCHANGED <<cq_frame, processing, stop_requested, output_queue,
                   analyze_button, stop_button, export_button,
                   open_folder_button, browse_button, recursive_checkbox,
                   progress_var, status_var, tree, dialogs, written>>

CheckQueue ==
    \/ CQ_Progress
    \/ CQ_Status
    \/ CQ_Result
    \/ CQ_Complete
    \/ CQ_Stopped
    \/ CQ_Error
    \/ CQ_Empty

\* export_results: the command of the Export button; the dialog returns a
\* path or is cancelled, and the write fails or succeeds
ExportResults ==
    /\ MainThreadFree
    /\ export_button = "normal"
    /\ IF results = <<>>
       THEN /\ dialogs' = <<"No Results">>
            /\ written' = <<>>
            /\ UNCHANGED status_var
       ELSE \E folder \in {RootDir, <<>>}, ok \in BOOLEAN :
              IF folder = <<>>
              THEN /\ dialogs' = <<>>
                   /\ written' = <<>>
                   /\ UNCHANGED status_var
              ELSE IF ok
              THEN /\ written' = <<CsvFile(folder, results, "manual")>>
                   /\ dialogs' = <<"Export Complete">>
                   /\ status_var' = Status("Results exported", 0, 0)
              ELSE /\ dialogs' = <<"Export Error">>
                   /\ written' = <<>>
                   /\ UNCHANGED status_var
    /\ UNCHANGED <<env_vars, call, selected_folder, recursive_search, processing,
                   stop_requested, results, output_queue, threads, poll,
                   analyze_button, stop_button, export_button,
                   open_folder_button, browse_button, recursive_checkbox,
                   progress_var, tree, stop_appends>>

(***************************************************************************)
(* Spec: the application                                                   *)
(***************************************************************************)
Init ==
    /\ ci = FALSE
    /\ fs = GuiDisk
    /\ STL_AVAILABLE \in BOOLEAN
    /\ call = NoCall
    /\ GuiInit

\* the environment: another program deletes a file, so that a run may find
\* fewer files than the scan that enabled the Analyze button
FileDeleted ==
    /\ \E e \in fs : e.is_file /\ fs' = fs \ {e}
    /\ UNCHANGED <<ci, STL_AVAILABLE, call, gui_vars>>

Next ==
    \/ FileDeleted
    \/ BrowseFolder
    \/ OnRecursiveToggle
    \/ StartAnalysis
    \/ StopAnalysis
    \/ ExportResults
    \/ WorkerStep
    \/ CheckQueue

Spec == Init /\ [][Next]_vars

\* the thread scheduler and the Tk timer are fair to the worker and to
\* check_queue; the user owes no click
FairSpec == Spec /\ WF_vars(WorkerStep) /\ WF_vars(CheckQueue)

(***************************************************************************)
(* Claims about the application (Spec)                                     *)
(***************************************************************************)
LastThread == threads[Len(threads)]

\* the step of check_queue that handles the message of the given type
Handles(type) ==
    /\ Polling
    /\ HeadIs(type)
    /\ output_queue' = Tail(output_queue)

\* C4: when 'complete' is handled after at least one file was analyzed, then
\* unless the write fails, one file is written: a CSV report in the selected
\* folder, holding the header and exactly one row per file found at the
\* start of the run, in the order the files were processed.
C4_ReportPerFile ==
    [][(Handles("complete") /\ results /= <<>>) =>
         \/ /\ written' = <<>>
            /\ "Export Error" \in Range(dialogs')
         \/ /\ Len(written') = 1
            /\ LET f == written'[1]
                   th == LastThread
               IN /\ f.kind = "csv"
                  /\ f.folder = selected_folder
                  /\ f.folder = th.folder
                  /\ f.header = FieldNames
                  /\ Len(f.rows) = Len(th.stl_files)
                  /\ \A k \in 1..Len(f.rows) :
                       /\ f.rows[k].file = th.stl_files[k].name
                       /\ f.rows[k].folder =
                            get_relative_folder(th.stl_files[k], th.folder)]_vars

\* C4 witness: a run over two files has completed and its report of two
\* rows, the first of a file that failed to load, is on disk
C4_Witness ==
    /\ threads /= <<>>
    /\ ~processing
    /\ LastThread.exit = "complete"
    /\ Len(LastThread.stl_files) = 2
    /\ Len(written) = 1
    /\ written[1].via = "auto"
    /\ Len(written[1].rows) = 2
    /\ written[1].rows[1].status = ErrLoad
    /\ written[1].rows[2].status = StatusOK

ActiveThreads == {t \in 1..Len(threads) : Active(threads[t])}

\* C5: at most one analysis thread is active at a time, and it is the one of
\* the run in progress; start_analysis taken while processing is set starts
\* no thread and changes no state.
C5_SingleProducer ==
    /\ [](/\ Cardinality(ActiveThreads) <= 1
          /\ \A t \in ActiveThreads : processing /\ t = Len(threads))
    /\ [][processing => Len(threads') = Len(threads)]_vars
    /\ [][(processing /\ StartAnalysis) => UNCHANGED vars]_vars

\* C5 witness: after a first run has ended, a second run is started and its
\* thread is at work on a file while a stop is requested
C5_Witness ==
    /\ Len(threads) = 2
    /\ threads[1].pc = "done"
    /\ threads[2].pc = "analyze"
    /\ processing
    /\ stop_requested

IsErrorRecord(r) ==
    /\ StartsWith(r.status, <<"Error:">>)
    /\ r.width_x = 0
    /\ r.depth_y = 0
    /\ r.height_z = 0
    /\ r.volume = 0
    /\ r.triangle_count = 0

\* C6: a file that fails to load or measure yields a record whose status
\* starts with 'Error:' and whose numbers are all 0, and does not abort the
\* run: a thread that has found its files and has returned with no stop
\* requested has put 'complete' and left one record per file, in order.
C6_ErrorsDoNotAbort ==
    /\ \A k \in 1..Len(results) :
         results[k].status /= StatusOK => IsErrorRecord(results[k])
    /\ (/\ threads /= <<>>
        /\ LastThread.pc = "done"
        /\ LastThread.scanned
        /\ processing
        /\ ~stop_requested)
       => /\ LastThread.exit = "complete"
          /\ output_queue /= <<>>
          /\ output_queue[Len(output_queue)].type = "complete"
          /\ Len(results) = Len(LastThread.stl_files)
          /\ \A k \in 1..Len(results) :
               results[k].file = LastThread.stl_files[k].name

\* C6 witness: a run with no stop has put 'complete' after two files, the
\* first of which failed to load
C6_Witness ==
    /\ threads /= <<>>
    /\ LastThread.exit = "complete"
    /\ processing
    /\ ~stop_requested
    /\ Len(results) = 2
    /\ results[1].status = ErrLoad
    /\ results[2].status = StatusOK

\* C7 as stated: every analysis run that writes its results to a CSV report
\* also writes a log file: the handler that writes the report writes a log.
C7_LogWithReport ==
    \A k \in 1..Len(written) :
      (written[k].kind = "csv" /\ written[k].via = "auto")
        => \E j \in 1..Len(written) : written[j].kind = "log"

\* C8 as stated, in the form a finite run refutes: every started analysis
\* ends.  Once the thread of the run has returned and the queue is empty no
\* message can arrive any more, so the terminal message must have been
\* handled: processing is False and the Browse and recursive controls are
\* enabled again.
C8_RunEnds ==
    (/\ threads /= <<>>
     /\ LastThread.pc = "done"
     /\ output_queue = <<>>)
    => /\ ~processing
       /\ browse_button = "normal"
       /\ recursive_checkbox = "normal"

\* C8 as a liveness property of FairSpec: processing is eventually reset
C8_EventuallyEnds == processing ~> ~processing

\* C9: once stop_requested is set during a run, the worker appends at most
\* one further record to results and starts no file after that.
C9_StopFinishesCurrentOnly ==
    /\ [](stop_appends <= 1)
    /\ [][\A t \in 1..Len(threads) :
            ~(/\ stop_requested
              /\ threads[t].pc = "loop"
              /\ Len(threads') = Len(threads)
              /\ threads'[t].pc = "analyze")]_vars

\* C9 witness: a stop was requested while the first of two files was being
\* measured; its record was appended and the thread returned at the next
\* stop check, leaving the second file unstarted
C9_Witness ==
    /\ threads /= <<>>
    /\ LastThread.exit = "stopped"
    /\ stop_appends = 1
    /\ Len(LastThread.stl_files) = 2
    /\ Len(results) = 1

\* C10 as stated: in analysis_stopped the notice "stopped before any files
\* could be processed" is shown only when no file was processed
\* (processed_count = 0 and results is empty), and the notice that partial
\* results have been exported is shown whenever partial results were
\* exported.
C10_StopNotices ==
    [][Handles("stopped") =>
         /\ NoticeNone \in Range(dialogs') =>
              (Head(output_queue).data = 0 /\ results = <<>>)
         /\ written' /= <<>> => NoticePartial \in Range(dialogs')]_vars

\* C11 as stated: the Export Results button is enabled only if there are
\* results to export: in every reachable state, export_button enabled
\* implies that results is non-empty.
C11_ExportOnlyWithResults ==
    export_button = "normal" => results /= <<>>

====
